---- MODULE Spec2Model ----
(***************************************************************************)
(* RAGrank evaluation core: evaluate() of ragrank/evaluation/base.py and   *)
(* EvalResult of ragrank/evaluation/outputs.py.                            *)
(*                                                                         *)
(* Spec        one call of evaluate(data, llm=, metrics=), step by step,   *)
(*             followed by the read-only accessors of the returned result. *)
(* SpecResult  one direct construction EvalResult(...) from arbitrary      *)
(*             arguments, followed by the accessors.                       *)
(*                                                                         *)
(* Floats and texts are represented by integer codes; an optional value is *)
(* << >> (absent) or <<v>> (present).                                      *)
(***************************************************************************)
EXTENDS Integers, Sequences, FiniteSets, TLC

\* Longest metric list, longest dataset, largest clock reading.
MaxM == 2
MaxN == 2
MaxTick == 1

VARIABLES
    pc,          \* position of the call: start, timer, scoring, construct, returned, raised
    dataArg,     \* evaluate's argument `data` as the caller passed it
    llmArg,      \* evaluate's argument `llm` as the caller passed it
    metricsArg,  \* evaluate's argument `metrics` as the caller passed it
    data,        \* the local `data` (rebound by the normalisation)
    llm,         \* the local `llm`
    metrics,     \* the local `metrics`
    dt,          \* the local `dt`, optional
    i, j,        \* position of the nested comprehension: metric i, datanode j
    row,         \* the inner list being built for metric i
    scores,      \* the outer list built so far
    calls,       \* log of the scoring calls made, <<i, j>> each
    thrown,      \* what a scoring call raised: optional [exc, i, j]
    error,       \* the exception that left the call, "none" if none
    ctor,        \* the keyword arguments handed to EvalResult(...), optional
    constructed, \* number of EvalResult(...) constructor invocations
    result,      \* the EvalResult object, optional
    table,       \* what result.to_dataframe() returned, optional
    rendering    \* what repr(result) rendered, optional

vars == <<pc, dataArg, llmArg, metricsArg, data, llm, metrics, dt, i, j, row,
          scores, calls, thrown, error, ctor, constructed, result, table, rendering>>

(***************************************************************************)
(* Collaborators (ragrank.dataset, ragrank.metric, ragrank.llm)            *)
(***************************************************************************)
Records == {"r1", "r2"}
Malformed == "malformed"
Fields == <<"question", "context", "response">>

response_relevancy == "response_relevancy"
\* "dup" bears the built-in metric's name, "q" the name of a dataset field.
Metrics == {response_relevancy, "dup", "q"}
MetricName(m) == IF m = "q" THEN "question" ELSE "response_relevancy"
MetricErrors == {"EvaluationError", "RuntimeError"}

MetricNo(m) == IF m = response_relevancy THEN 1 ELSE IF m = "dup" THEN 2 ELSE 3
RecNo(r) == IF r = "r1" THEN 1 ELSE 2
FieldNo(f) == IF f = "question" THEN 1 ELSE IF f = "context" THEN 2 ELSE 3

\* metric.score(datanode).score of a deterministic metric: a different float
\* for every (metric, record) pair.
ScoreOf(m, r) == 10 * MetricNo(m) + RecNo(r)
\* The cell of a record's field in the dataset's table (a text).
FieldValue(r, f) == 0 - (10 * RecNo(r) + FieldNo(f))

SeqsUpTo(S, n) == UNION {[1..k -> S] : k \in 0..n}

Dataset(nodes) == [kind |-> "Dataset", nodes |-> nodes]
DataNode(r) == [kind |-> "DataNode", node |-> r]
Dict(r) == [kind |-> "dict", mapping |-> r]
MetricList(items) == [kind |-> "List", items |-> items]
SingleMetric(m) == [kind |-> "BaseMetric", metric |-> m]
NoMetrics == [kind |-> "None"]

from_dict(d) == DataNode(d.mapping)
FromDictRaises(d) == d.mapping \notin Records
to_dataset(n) == Dataset(<<n.node>>)
default_llm == "default_llm"
with_progress(ds) == ds.nodes
len(ds) == Len(ds.nodes)

DataArgs ==
    {Dict(r) : r \in Records \cup {Malformed}}
    \cup {DataNode(r) : r \in Records}
    \cup {Dataset(s) : s \in SeqsUpTo(Records, MaxN)}
MetricsArgs ==
    {NoMetrics}
    \cup {SingleMetric(m) : m \in Metrics}
    \cup {MetricList(s) : s \in SeqsUpTo(Metrics, MaxM)}
LlmArgs == {"None", "custom_llm"}
Clock == 0..MaxTick

(***************************************************************************)
(* evaluate: input normalisation                                           *)
(***************************************************************************)
\* Faulty variant: the record is lost when it is wrapped into a dataset.
NormalizeData_DropsNode(d) ==
    LET d1 == IF d.kind = "dict" THEN from_dict(d) ELSE d
    IN  IF d1.kind = "DataNode" THEN Dataset(<< >>) ELSE d1

NormalizeData(d) ==
    LET d1 == IF d.kind = "dict" THEN from_dict(d) ELSE d
    IN  IF d1.kind = "DataNode" THEN to_dataset(d1) ELSE d1

NormalizeLlm(l) == IF l = "None" THEN default_llm ELSE l

\* Faulty variant: a single metric is treated like an absent one.
NormalizeMetrics_SingleAsNone(m) ==
    IF m.kind \in {"None", "BaseMetric"} THEN MetricList(<<response_relevancy>>) ELSE m

NormalizeMetrics(m) ==
    LET m1 == IF m.kind = "None" THEN MetricList(<<response_relevancy>>) ELSE m
    IN  IF m1.kind = "BaseMetric" THEN MetricList(<<m1.metric>>) ELSE m1

Normalize ==
    /\ pc = "start"
    /\ IF data.kind = "dict" /\ FromDictRaises(data)
       THEN /\ pc' = "raised"
            /\ error' = "DatasetError"
            /\ UNCHANGED <<data, llm, metrics>>
       ELSE /\ pc' = "timer"
            /\ data' = NormalizeData(data)
            /\ llm' = NormalizeLlm(llm)
            /\ metrics' = NormalizeMetrics(metrics)
            /\ UNCHANGED error
    /\ UNCHANGED <<dataArg, llmArg, metricsArg, dt, i, j, row, scores, calls,
                   thrown, ctor, constructed, result, table, rendering>>

StartTimer ==
    /\ pc = "timer"
    /\ \E now \in Clock : dt' = <<now>>
    /\ pc' = "scoring"
    /\ i' = 1
    /\ j' = 1
    /\ row' = << >>
    /\ scores' = << >>
    /\ UNCHANGED <<dataArg, llmArg, metricsArg, data, llm, metrics, calls,
                   thrown, error, ctor, constructed, result, table, rendering>>

(***************************************************************************)
(* evaluate: the scoring loop                                              *)
(***************************************************************************)
\* Faulty variant: the comprehension collects in reverse order.
AppendScore_Prepend(lst, s) == <<s>> \o lst

AppendScore(lst, s) == Append(lst, s)

\* Faulty variant: the metric is invoked twice for one entry.
ScoreReturns_Twice ==
    /\ calls' = calls \o <<<<i, j>>, <<i, j>>>>
    /\ row' = AppendScore(row, ScoreOf(metrics.items[i], with_progress(data)[j]))
    /\ j' = j + 1
    /\ UNCHANGED <<pc, i, scores, thrown, error>>

ScoreReturns ==
    /\ calls' = Append(calls, <<i, j>>)
    /\ row' = AppendScore(row, ScoreOf(metrics.items[i], with_progress(data)[j]))
    /\ j' = j + 1
    /\ UNCHANGED <<pc, i, scores, thrown, error>>

\* Faulty variant: the metric's error is swallowed and the loop goes on.
ScoreRaises_Suppressed(e) ==
    /\ calls' = Append(calls, <<i, j>>)
    /\ thrown' = <<[exc |-> e, i |-> i, j |-> j]>>
    /\ row' = AppendScore(row, 0)
    /\ j' = j + 1
    /\ UNCHANGED <<pc, i, scores, error>>

ScoreRaises(e) ==
    /\ calls' = Append(calls, <<i, j>>)
    /\ thrown' = <<[exc |-> e, i |-> i, j |-> j]>>
    /\ error' = e
    /\ pc' = "raised"
    /\ UNCHANGED <<i, j, row, scores>>

ScoreCall ==
    /\ pc = "scoring"
    /\ i <= Len(metrics.items)
    /\ j <= Len(with_progress(data))
    /\ \/ ScoreReturns
       \/ \E e \in MetricErrors : ScoreRaises(e)
    /\ UNCHANGED <<dataArg, llmArg, metricsArg, data, llm, metrics, dt,
                   ctor, constructed, result, table, rendering>>

EndRow ==
    /\ pc = "scoring"
    /\ i <= Len(metrics.items)
    /\ j > Len(with_progress(data))
    /\ scores' = AppendScore(scores, row)
    /\ row' = << >>
    /\ i' = i + 1
    /\ j' = 1
    /\ UNCHANGED <<pc, dataArg, llmArg, metricsArg, data, llm, metrics, dt, calls,
                   thrown, error, ctor, constructed, result, table, rendering>>

EndLoop ==
    /\ pc = "scoring"
    /\ i > Len(metrics.items)
    /\ \E now \in Clock :
          ctor' = <<[llm |-> llm, metrics |-> metrics.items, dataset |-> data,
                     response_time |-> now - dt[1], scores |-> scores]>>
    /\ pc' = "construct"
    /\ UNCHANGED <<dataArg, llmArg, metricsArg, data, llm, metrics, dt, i, j, row,
                   scores, calls, thrown, error, constructed, result, table, rendering>>

(***************************************************************************)
(* EvalResult: construction and validation                                 *)
(***************************************************************************)
FieldCheck(c) == c.response_time > 0

\* Faulty variant: only the first score list is compared with the dataset.
validator_FirstRowOnly(c) ==
    IF Len(c.metrics) # Len(c.scores)
    THEN "metrics_scores"
    ELSE IF Len(c.scores) > 0 /\ Len(c.scores[1]) # len(c.dataset)
         THEN "datapoints_scores"
         ELSE "ok"

validator(c) ==
    IF Len(c.metrics) # Len(c.scores)
    THEN "metrics_scores"
    ELSE IF \E k \in 1..Len(c.scores) : Len(c.scores[k]) # len(c.dataset)
         THEN "datapoints_scores"
         ELSE "ok"

EvalResult(c) ==
    IF ~FieldCheck(c) THEN [ok |-> FALSE, why |-> "response_time", obj |-> << >>]
    ELSE IF validator(c) # "ok" THEN [ok |-> FALSE, why |-> validator(c), obj |-> << >>]
    ELSE [ok |-> TRUE, why |-> "ok", obj |-> <<c>>]

Construct ==
    /\ pc = "construct"
    /\ constructed' = constructed + 1
    /\ LET r == EvalResult(ctor[1])
       IN  /\ result' = r.obj
           /\ pc' = IF r.ok THEN "returned" ELSE "raised"
           /\ error' = IF r.ok THEN error ELSE "ValidationError"
    /\ UNCHANGED <<dataArg, llmArg, metricsArg, data, llm, metrics, dt, i, j, row,
                   scores, calls, thrown, ctor, table, rendering>>

(***************************************************************************)
(* EvalResult: the read-only accessors                                     *)
(***************************************************************************)
\* Dataset.to_dataframe(): one row per record, one column per field.
DatasetToDataframe(ds) ==
    [columns |-> Fields,
     nrows   |-> len(ds),
     col     |-> [f \in {Fields[k] : k \in 1..Len(Fields)} |->
                    [n \in 1..len(ds) |-> FieldValue(ds.nodes[n], f)]]]

\* Faulty variant: an existing column is kept, the assignment is lost.
SetColumn_KeepFirst(df, name, values) ==
    IF name \in DOMAIN df.col
    THEN df
    ELSE [columns |-> Append(df.columns, name),
          nrows   |-> df.nrows,
          col     |-> [c \in DOMAIN df.col \cup {name} |->
                         IF c = name THEN values ELSE df.col[c]]]

\* df[name] = values: an existing column is replaced in place, a new one is
\* added after the last column.
SetColumn(df, name, values) ==
    IF name \in DOMAIN df.col
    THEN [df EXCEPT !.col[name] = values]
    ELSE [columns |-> Append(df.columns, name),
          nrows   |-> df.nrows,
          col     |-> [c \in DOMAIN df.col \cup {name} |->
                         IF c = name THEN values ELSE df.col[c]]]

RECURSIVE FillColumns(_, _, _, _)
\* The loop `for i in range(upto)` from index k on (1-based here).
FillColumns(self, df, k, upto) ==
    IF k > upto THEN df
    ELSE FillColumns(self, SetColumn(df, MetricName(self.metrics[k]), self.scores[k]),
                     k + 1, upto)

\* Faulty variant: the loop stops one metric short.
to_dataframe_SkipLast(self) ==
    FillColumns(self, DatasetToDataframe(self.dataset), 1, Len(self.metrics) - 1)

to_dataframe(self) ==
    FillColumns(self, DatasetToDataframe(self.dataset), 1, Len(self.metrics))

\* d[key] = value of a Python dict: an existing key keeps its position and
\* takes the new value.
DictSet(d, key, value) ==
    IF key \in DOMAIN d.val
    THEN [d EXCEPT !.val[key] = value]
    ELSE [keys |-> Append(d.keys, key),
          val  |-> [x \in DOMAIN d.val \cup {key} |->
                      IF x = key THEN value ELSE d.val[x]]]

EmptyDict == [keys |-> << >>, val |-> << >>]

RECURSIVE RowDict(_, _, _, _)
\* {metrics[k].name: scores[k][n] for k in range(len(metrics))} from index k on.
RowDict(self, n, k, d) ==
    IF k > Len(self.metrics) THEN d
    ELSE RowDict(self, n, k + 1,
                 DictSet(d, MetricName(self.metrics[k]), self.scores[k][n]))

\* The list `data` that __repr__ hands to str(): one dict per record.
repr(self) == [n \in 1..len(self.dataset) |-> RowDict(self, n, 1, EmptyDict)]

ToDataframe ==
    /\ pc = "returned"
    /\ table = << >>
    /\ table' = <<to_dataframe(result[1])>>
    /\ UNCHANGED <<pc, dataArg, llmArg, metricsArg, data, llm, metrics, dt, i, j, row,
                   scores, calls, thrown, error, ctor, constructed, result, rendering>>

Repr ==
    /\ pc = "returned"
    /\ rendering = << >>
    /\ rendering' = <<repr(result[1])>>
    /\ UNCHANGED <<pc, dataArg, llmArg, metricsArg, data, llm, metrics, dt, i, j, row,
                   scores, calls, thrown, error, ctor, constructed, result, table>>

Init ==
    /\ pc = "start"
    /\ dataArg \in DataArgs
    /\ llmArg \in LlmArgs
    /\ metricsArg \in MetricsArgs
    /\ data = dataArg
    /\ llm = llmArg
    /\ metrics = metricsArg
    /\ dt = << >>
    /\ i = 0
    /\ j = 0
    /\ row = << >>
    /\ scores = << >>
    /\ calls = << >>
    /\ thrown = << >>
    /\ error = "none"
    /\ ctor = << >>
    /\ constructed = 0
    /\ result = << >>
    /\ table = << >>
    /\ rendering = << >>

Next ==
    \/ Normalize
    \/ StartTimer
    \/ ScoreCall
    \/ EndRow
    \/ EndLoop
    \/ Construct
    \/ ToDataframe
    \/ Repr

Spec == Init /\ [][Next]_vars

(***************************************************************************)
(* Direct construction EvalResult(llm=, metrics=, dataset=, response_time=,*)
(* scores=) by any caller, from arbitrary arguments.                       *)
(***************************************************************************)
Floats == {1, 2}
ScoreRows == {[n \in 1..k |-> v] : k \in 0..MaxN, v \in Floats}
CtorArgs ==
    [llm : {default_llm},
     metrics : SeqsUpTo(Metrics, MaxM),
     dataset : {Dataset([n \in 1..k |-> "r1"]) : k \in 0..MaxN},
     response_time : -1..1,
     scores : SeqsUpTo(ScoreRows, MaxM)]

InitResult ==
    /\ pc = "construct"
    /\ ctor \in {<<c>> : c \in CtorArgs}
    /\ dataArg = ctor[1].dataset
    /\ llmArg = ctor[1].llm
    /\ metricsArg = MetricList(ctor[1].metrics)
    /\ data = dataArg
    /\ llm = llmArg
    /\ metrics = metricsArg
    /\ dt = << >>
    /\ i = 0
    /\ j = 0
    /\ row = << >>
    /\ scores = << >>
    /\ calls = << >>
    /\ thrown = << >>
    /\ error = "none"
    /\ constructed = 0
    /\ result = << >>
    /\ table = << >>
    /\ rendering = << >>

NextResult ==
    \/ Construct
    \/ ToDataframe
    \/ Repr

SpecResult == InitResult /\ [][NextResult]_vars

(***************************************************************************)
(* Properties                                                              *)
(***************************************************************************)
FieldSet == {Fields[k] : k \in 1..Len(Fields)}
NameSet(ms) == {MetricName(ms[k]) : k \in 1..Len(ms)}
\* k is the last metric of ms bearing its name.
IsLastOfName(ms, k) ==
    \A k2 \in (k + 1)..Len(ms) : MetricName(ms[k2]) # MetricName(ms[k])
\* The three invariants of an EvalResult, on constructor arguments or on an object.
Consistent(c) ==
    /\ Len(c.metrics) = Len(c.scores)
    /\ \A k \in 1..Len(c.scores) : Len(c.scores[k]) = Len(c.dataset.nodes)
    /\ c.response_time > 0
\* scores[a][b] is the score metric a gives to record b.
ExpectedScores(ms, ds) ==
    [a \in 1..Len(ms) |-> [b \in 1..Len(ds.nodes) |-> ScoreOf(ms[a], ds.nodes[b])]]
\* The list form of a metrics argument.
ListForm(m) ==
    IF m.kind = "None" THEN <<response_relevancy>>
    ELSE IF m.kind = "BaseMetric" THEN <<m.metric>>
    ELSE m.items

\* C1: a construction yields an object exactly when the arguments satisfy the
\* three invariants; the object then holds the arguments as given (nothing is
\* truncated or padded) and satisfies the invariants; otherwise the
\* construction ends in a validation error and there is no object.
C1_ConstructionValidates ==
    constructed = 1 =>
        /\ (result # << >>) <=> Consistent(ctor[1])
        /\ result # << >> => result[1] = ctor[1] /\ Consistent(result[1])
        /\ result = << >> => pc = "raised" /\ error = "ValidationError"

\* Two metrics and one score list: the construction was rejected.
C1_Witness ==
    /\ constructed = 1
    /\ Len(ctor[1].metrics) = 2
    /\ Len(ctor[1].scores) = 1
    /\ ctor[1].response_time > 0
    /\ result = << >>
    /\ error = "ValidationError"

\* C2: the result evaluate returns has one score list per metric and one
\* entry per record, scores[a][b] is the score of metrics[a] on record b, and
\* metrics and dataset are the inputs in their order.
C2_ScoresAligned ==
    pc = "returned" =>
        LET r == result[1]
        IN  /\ r.metrics = metrics.items
            /\ r.dataset = data
            /\ metricsArg.kind = "List" => r.metrics = metricsArg.items
            /\ dataArg.kind = "Dataset" => r.dataset = dataArg
            /\ Len(r.scores) = Len(r.metrics)
            /\ \A a \in 1..Len(r.metrics) :
                  /\ Len(r.scores[a]) = Len(r.dataset.nodes)
                  /\ \A b \in 1..Len(r.dataset.nodes) :
                        r.scores[a][b] = ScoreOf(r.metrics[a], r.dataset.nodes[b])

\* Two different metrics over two different records were evaluated.
C2_Witness ==
    /\ pc = "returned"
    /\ metricsArg = MetricList(<<"q", response_relevancy>>)
    /\ dataArg = Dataset(<<"r2", "r1">>)
    /\ result[1].scores = <<<<32, 31>>, <<12, 11>>>>

\* C3: whenever the scoring loop completes, the elapsed time handed to the
\* result is > 0 and evaluate does not end in a validation error.
C3_ResponseTimePositive ==
    /\ pc = "construct" => ctor[1].response_time > 0
    /\ error # "ValidationError"

\* C4: once a scoring call has raised, the call has ended with that very
\* error, no result was constructed, the failing call is the last scoring
\* call made and no scoring call was made twice.
C4_MetricErrorAborts ==
    thrown # << >> =>
        /\ pc = "raised"
        /\ error = thrown[1].exc
        /\ ctor = << >>
        /\ constructed = 0
        /\ result = << >>
        /\ calls[Len(calls)] = <<thrown[1].i, thrown[1].j>>
        /\ \A a, b \in 1..Len(calls) : calls[a] = calls[b] => a = b

\* The first metric failed on the first of two records, a second metric waiting.
C4_Witness ==
    /\ thrown # << >>
    /\ thrown[1].i = 1
    /\ thrown[1].j = 1
    /\ Len(metrics.items) = 2
    /\ Len(data.nodes) = 2
    /\ pc = "raised"
    /\ error = "RuntimeError"

\* C5 as stated: the table has one row per record and as many columns as
\* dataset fields plus distinct metric names.
C5_ColumnsFieldsPlusNames ==
    table # << >> =>
        /\ table[1].nrows = Len(result[1].dataset.nodes)
        /\ Len(table[1].columns) = Len(Fields) + Cardinality(NameSet(result[1].metrics))

\* C5 amended: the table has one row per record, every column has that many
\* cells, and the columns are the dataset fields followed by the distinct
\* metric names that are not dataset field names.
C5_TableShape ==
    table # << >> =>
        LET t == table[1]
            r == result[1]
        IN  /\ t.nrows = Len(r.dataset.nodes)
            /\ \A c \in DOMAIN t.col : Len(t.col[c]) = t.nrows
            /\ DOMAIN t.col = FieldSet \cup NameSet(r.metrics)
            /\ {t.columns[k] : k \in 1..Len(t.columns)} = DOMAIN t.col
            /\ Len(t.columns) = Len(Fields) + Cardinality(NameSet(r.metrics) \ FieldSet)

\* A table of a result with a metric named after a dataset field and another.
C5_Witness ==
    /\ table # << >>
    /\ result[1].metrics = <<"q", response_relevancy>>
    /\ Len(result[1].dataset.nodes) = 2
    /\ table[1].columns = <<"question", "context", "response", "response_relevancy">>

\* C6: after normalisation the metric list is non-empty, and every result
\* evaluate returns has at least one metric.
C6_MetricsNonEmpty ==
    /\ pc \in {"timer", "scoring", "construct", "returned"} => Len(metrics.items) >= 1
    /\ pc = "returned" => Len(result[1].metrics) >= 1

\* C7: the result of evaluate depends on the metrics argument only through
\* its list form: metrics=m gives the metrics, dataset and scores of
\* metrics=[m], and metrics absent those of metrics=[response_relevancy].
C7_SingleMetricShorthand ==
    pc = "returned" =>
        \A ms \in SeqsUpTo(Metrics, 1) :
            (Len(ms) = 1 /\ ( \/ metricsArg = SingleMetric(ms[1])
                              \/ metricsArg = MetricList(ms)
                              \/ (metricsArg = NoMetrics /\ ms = <<response_relevancy>>) ))
            => /\ result[1].metrics = ms
               /\ result[1].dataset = NormalizeData(dataArg)
               /\ result[1].scores = ExpectedScores(ms, NormalizeData(dataArg))

\* A single metric, not in a list, was evaluated over two records.
C7_Witness ==
    /\ pc = "returned"
    /\ metricsArg = SingleMetric("dup")
    /\ dataArg = Dataset(<<"r1", "r2">>)
    /\ result[1].metrics = <<"dup">>
    /\ result[1].scores = <<<<21, 22>>>>

\* C8: a raw mapping d and from_dict(d) are evaluated as the same one-record
\* dataset with the same scores; a record is evaluated as the one-record
\* dataset wrapping it; a dataset is evaluated as is.
C8_DataNormalization ==
    pc = "returned" =>
        /\ \A r \in Records :
              (dataArg = Dict(r) \/ dataArg = from_dict(Dict(r)) \/ dataArg = DataNode(r))
              => /\ result[1].dataset = Dataset(<<r>>)
                 /\ result[1].scores = ExpectedScores(ListForm(metricsArg), Dataset(<<r>>))
        /\ dataArg.kind = "Dataset"
              => /\ result[1].dataset = dataArg
                 /\ result[1].scores = ExpectedScores(ListForm(metricsArg), dataArg)

\* A raw mapping was evaluated by two metrics.
C8_Witness ==
    /\ pc = "returned"
    /\ dataArg = Dict("r2")
    /\ Len(result[1].metrics) = 2
    /\ result[1].dataset = Dataset(<<"r2">>)

\* C9: metrics sharing a name do not fail the construction; in the table the
\* column of a name holds the score list of the last metric bearing it, and
\* in every per-record mapping of the rendering the entry of a name is the
\* score of the last metric bearing it.
C9_LastWriteWins ==
    /\ (constructed = 1 /\ Consistent(ctor[1])) => result # << >>
    /\ table # << >> =>
          \A k \in 1..Len(result[1].metrics) :
              IsLastOfName(result[1].metrics, k)
              => table[1].col[MetricName(result[1].metrics[k])] = result[1].scores[k]
    /\ rendering # << >> =>
          /\ Len(rendering[1]) = Len(result[1].dataset.nodes)
          /\ \A n \in 1..Len(rendering[1]) :
                /\ DOMAIN rendering[1][n].val = NameSet(result[1].metrics)
                /\ \A k \in 1..Len(result[1].metrics) :
                      IsLastOfName(result[1].metrics, k)
                      => rendering[1][n].val[MetricName(result[1].metrics[k])]
                            = result[1].scores[k][n]

\* Two metrics of one name with different scores, tabulated and rendered.
C9_Witness ==
    /\ result # << >>
    /\ result[1].metrics = <<response_relevancy, "dup">>
    /\ result[1].scores = <<<<1, 1>>, <<2, 2>>>>
    /\ table # << >>
    /\ table[1].col["response_relevancy"] = <<2, 2>>
    /\ rendering # << >>
    /\ rendering[1][1].val["response_relevancy"] = 2

\* C10: the scoring calls made so far are the first calls of the metric-major
\* order, one per (metric, record) pair; the result is constructed at most
\* once, and only when all M*N calls have been made.
C10_CallOrder ==
    /\ \A k \in 1..Len(calls) :
          calls[k] = <<((k - 1) \div Len(data.nodes)) + 1, ((k - 1) % Len(data.nodes)) + 1>>
    /\ constructed <= 1
    /\ constructed = 1 => Len(calls) = Len(metrics.items) * Len(data.nodes)
    /\ pc = "returned" => constructed = 1

\* A full evaluation of two metrics over two records has returned.
C10_Witness ==
    /\ pc = "returned"
    /\ constructed = 1
    /\ calls = <<<<1, 1>>, <<1, 2>>, <<2, 1>>, <<2, 2>>>>
====
